---------------------------- MODULE Spec2Model ----------------------------
(***************************************************************************)
(* Model of fix_http_urls.py: main() enumerates the *.java files under a   *)
(* fixed root, and fix_http_urls_in_file() reads each one as text, applies *)
(* two re.sub rules and writes the file back when the text changed.        *)
(*                                                                         *)
(* A file on disk is a sequence of bytes, one string per byte: "BAD" is a  *)
(* byte that is not valid UTF-8, "CR" and "LF" are the two line-ending     *)
(* bytes, every other string is the ASCII character it shows.  A text (a   *)
(* Python str) is a sequence of characters in the same notation.           *)
(***************************************************************************)
EXTENDS Integers, Sequences, FiniteSets

(* ------------------------------ bounds -------------------------------- *)

\* Invocations of the script in one behaviour.
MaxRuns == 2

\* File operations that fail in one behaviour.
MaxFaults == 1

(* ------------------------- the two rules ------------------------------ *)

Pattern1 == <<"s", "e", "t", "H", "r", "e", "f", "(", "\"", "h", "t", "t", "p", ":", "/", "/", "w", "w", "w", ".", "a", "s", "p", "e", "c", "t", "s", "e", "c", "u", "r", "i", "t", "y", ".", "c", "o", "m", "\"", ")">>

Replacement1Kept == <<"x">> \o Pattern1

Replacement1 == <<"s", "e", "t", "H", "r", "e", "f", "(", "\"", "h", "t", "t", "p", "s", ":", "/", "/", "w", "w", "w", ".", "a", "s", "p", "e", "c", "t", "s", "e", "c", "u", "r", "i", "t", "y", ".", "c", "o", "m", "\"", ")">>

Pattern2 == <<"<", "a", " ", "h", "r", "e", "f", "=", "\"", "h", "t", "t", "p", ":", "/", "/", "w", "w", "w", ".", "a", "s", "p", "e", "c", "t", "s", "e", "c", "u", "r", "i", "t", "y", ".", "c", "o", "m", "\"", ">">>

Replacement2 == <<"<", "a", " ", "h", "r", "e", "f", "=", "\"", "h", "t", "t", "p", "s", ":", "/", "/", "w", "w", "w", ".", "a", "s", "p", "e", "c", "t", "s", "e", "c", "u", "r", "i", "t", "y", ".", "c", "o", "m", "\"", ">">>

\* Whether pat occurs in s starting at position i.
MatchAt(pat, s, i) ==
    /\ i + Len(pat) - 1 <= Len(s)
    /\ \A k \in 1..Len(pat) : s[i + k - 1] = pat[k]

\* re.sub(pat, rep, s) for a pattern of literal characters, from position i
\* of s on: the leftmost match at or after i is replaced, the characters
\* before it are copied, and the scan resumes after the match.
RECURSIVE SubFrom(_, _, _, _)
SubFrom(pat, rep, s, i) ==
    LET found == {j \in i..Len(s) : MatchAt(pat, s, j)} IN
    IF found = {} THEN SubSeq(s, i, Len(s))
    ELSE LET m == CHOOSE j \in found : \A k \in found : j <= k IN
         SubSeq(s, i, m - 1) \o rep \o SubFrom(pat, rep, s, m + Len(pat))

ReSub(pat, rep, s) == SubFrom(pat, rep, s, 1)

\* Lines 20-31: the two substitutions, in order.
ApplyRules(s) == ReSub(Pattern2, Replacement2, ReSub(Pattern1, Replacement1, s))

ChangedAlways(new, old) == TRUE

\* Line 33: content != original_content.
Changed(new, old) == new # old

(* ------------------------- text input/output -------------------------- *)

\* errors='ignore': bytes that are not valid UTF-8 are dropped.
DropUndecodable(b) == SelectSeq(b, LAMBDA c : c # "BAD")

\* Universal newlines on reading (newline=None): CR LF and a lone CR
\* both become LF.
TranslateNewlines(t) ==
    LET marked == [k \in 1..Len(t) |->
                     IF t[k] = "CR" THEN "LF"
                     ELSE IF t[k] = "LF" /\ k > 1 /\ t[k - 1] = "CR" THEN "DROP"
                     ELSE t[k]]
    IN SelectSeq(marked, LAMBDA c : c # "DROP")

\* Line 14-15: open(file_path, 'r', encoding='utf-8', errors='ignore').read()
Decode(b) == TranslateNewlines(DropUndecodable(b))

\* os.linesep of the platform.
LineSep(os) == IF os = "nt" THEN <<"CR", "LF">> ELSE <<"LF">>

\* Line 34-35: open(file_path, 'w', encoding='utf-8').write(content):
\* each LF of the text is written as os.linesep.
RECURSIVE Encode(_, _)
Encode(t, os) ==
    IF Len(t) = 0 THEN <<>>
    ELSE IF Len(t) = 1 THEN (IF t[1] = "LF" THEN LineSep(os) ELSE t)
    ELSE LET half == Len(t) \div 2 IN
         Encode(SubSeq(t, 1, half), os) \o Encode(SubSeq(t, half + 1, Len(t)), os)

(* --------------------------- file names ------------------------------- *)

DotJava == <<".", "j", "a", "v", "a">>

NameA == <<"A", ".", "j", "a", "v", "a">>
NameB == <<"B", ".", "j", "a", "v", "a">>
NameD == <<"D", ".", "J", "A", "V", "A">>
NameN == <<"N", ".", "t", "x", "t">>

Names == {NameA, NameB, NameD, NameN}

Lower(c) ==
    CASE c = "A" -> "a" [] c = "B" -> "b" [] c = "D" -> "d" [] c = "J" -> "j"
      [] c = "N" -> "n" [] c = "V" -> "v" [] OTHER -> c

\* os.path.normcase: lower case on Windows, the identity elsewhere.
NormCase(name, os) ==
    IF os = "nt" THEN [k \in 1..Len(name) |-> Lower(name[k])] ELSE name

EndsWith(s, suffix) ==
    /\ Len(s) >= Len(suffix)
    /\ SubSeq(s, Len(s) - Len(suffix) + 1, Len(s)) = suffix

GlobMatchAll(name, os) == TRUE

\* Line 53: the pattern "*.java" of glob.glob, matched by fnmatch on the
\* case-normalised name; "*" does not match a leading dot.
GlobMatch(name, os) ==
    /\ EndsWith(NormCase(name, os), DotJava)
    /\ name[1] # "."

(* --------------------------- the samples ------------------------------ *)

Plain == <<"x", "LF">>

\* The contents a file may start with.
Samples ==
    { <<>>,
      Plain,
      Pattern1,
      Pattern2 \o <<"CR", "LF">> \o Pattern1 \o <<"LF">>,
      Pattern1 \o Pattern1 \o <<"CR">>,
      Replacement1 \o <<"LF">>,
      <<"BAD">> \o Pattern2,
      SubSeq(Pattern1, 1, 20) \o <<"BAD">> \o SubSeq(Pattern1, 21, 40) }

\* The contents the second .java file may start with.
FewSamples == { Plain, Pattern1 \o <<"CR", "LF">>, <<"BAD">> \o Pattern2 }

\* The contents the two other files may start with.
SmallSamples == { Plain, Pattern2 \o <<"LF">> }

(* ------------------------------ state --------------------------------- *)

VARIABLES
    platform,          \* os.name of the interpreter: "posix" or "nt"
    rootExists,        \* os.path.exists(base_path)
    disk,              \* the files under base_path: name -> bytes
    run,               \* which invocation of the script this is
    pc,                \* where the invocation stands
    java_files,        \* main: the list glob returned
    idx,               \* main: position of the for loop in java_files
    fixed_files,       \* main: the list of fixed files
    total_files,       \* main: len(java_files)
    file_path,         \* fix_http_urls_in_file: its argument
    content,           \* fix_http_urls_in_file: local
    original_content,  \* fix_http_urls_in_file: local
    stdout,            \* what the invocation printed: the root error, the
                       \* files named in "Error processing", the summary
    exit_status,       \* <<the exit status of the process>>, <<>> before
    faults,            \* file operations that failed so far
    orig,              \* history: disk when the invocation started
    prev,              \* history: the errors and the fixed files the
                       \* previous invocation reported
    globs,             \* history: the calls of glob.glob of this invocation
    trace              \* history: per file, the calls, reads and opens for
                       \* writing of this invocation, and the text read

vars == <<platform, rootExists, disk, run, pc, java_files, idx, fixed_files,
          total_files, file_path, content, original_content, stdout,
          exit_status, faults, orig, prev, globs, trace>>

NoFile == <<>>

Range(s) == {s[k] : k \in 1..Len(s)}

\* All orders of the set S, as sequences.
Orders(S) ==
    {s \in [1..Cardinality(S) -> S] : \A i, j \in 1..Cardinality(S) : s[i] = s[j] => i = j}

NoOutput == [root_error |-> FALSE, errors |-> {}, summary |-> <<>>]

NoTrace == [calls |-> 0, reads |-> 0, opens |-> 0, text |-> <<>>]

\* The files glob.glob(os.path.join(base_path, "**", "*.java"), recursive=True)
\* finds.
Candidates == {n \in DOMAIN disk : GlobMatch(n, platform)}

RootFoundAlways == TRUE

\* Line 48: os.path.exists(base_path).
RootFound == rootExists

\* Lines 44-50 and 76-77: main() returns None on both paths and the script
\* calls nothing else, so the interpreter exits with status 0.
ExitStatus(root_found) == 0

AfterFalseRetry(i, n) == i

AfterFalseBreak(i, n) == n + 1

\* Line 60: the position of the for loop after the call for java_files[i]
\* ended in the except block (lines 40-42).
AfterFalse(i, n) == i + 1

Init ==
    /\ platform \in {"posix", "nt"}
    /\ rootExists \in BOOLEAN
    /\ disk \in IF rootExists
                THEN {d \in [Names -> Samples \cup FewSamples \cup SmallSamples] :
                        /\ d[NameA] \in Samples
                        /\ d[NameB] \in FewSamples
                        /\ d[NameD] \in SmallSamples
                        /\ d[NameN] \in SmallSamples}
                ELSE {[n \in {} |-> <<>>]}
    /\ run = 1
    /\ pc = "main"
    /\ java_files = <<>>
    /\ idx = 1
    /\ fixed_files = <<>>
    /\ total_files = 0
    /\ file_path = NoFile
    /\ content = <<>>
    /\ original_content = <<>>
    /\ stdout = NoOutput
    /\ exit_status = <<>>
    /\ faults = 0
    /\ orig = disk
    /\ prev = [errors |-> {}, fixed |-> <<>>]
    /\ globs = 0
    /\ trace = [n \in DOMAIN disk |-> NoTrace]

env == <<platform, rootExists, run, orig, prev>>
main_locals == <<java_files, fixed_files, total_files>>
file_locals == <<file_path, content, original_content>>

\* Lines 46-50: the root check.
CheckRoot ==
    /\ pc = "main"
    /\ IF RootFound
       THEN /\ pc' = "glob"
            /\ UNCHANGED stdout
       ELSE /\ pc' = "return"
            /\ stdout' = [stdout EXCEPT !.root_error = TRUE]
    /\ UNCHANGED <<env, disk, main_locals, idx, file_locals, exit_status,
                   faults, globs, trace>>

\* Lines 53-58: enumerate, in whatever order glob yields.
Glob ==
    /\ pc = "glob"
    /\ java_files' \in Orders(Candidates)
    /\ fixed_files' = <<>>
    /\ total_files' = Len(java_files')
    /\ idx' = 1
    /\ globs' = globs + 1
    /\ pc' = "for"
    /\ UNCHANGED <<env, disk, file_locals, stdout, exit_status, faults, trace>>

\* Lines 60-61 and 11-13: the loop takes the next file and calls
\* fix_http_urls_in_file on it.
ForNext ==
    /\ pc = "for"
    /\ idx <= Len(java_files)
    /\ file_path' = java_files[idx]
    /\ trace' = [trace EXCEPT ![java_files[idx]].calls = @ + 1]
    /\ pc' = "try"
    /\ UNCHANGED <<env, disk, main_locals, idx, content, original_content,
                   stdout, exit_status, faults, globs>>

\* Line 60: the list is exhausted.
ForEnd ==
    /\ pc = "for"
    /\ idx > Len(java_files)
    /\ pc' = "summary"
    /\ UNCHANGED <<env, disk, main_locals, idx, file_locals, stdout,
                   exit_status, faults, globs, trace>>

\* Lines 14-17: the file is read whole.
Read ==
    /\ pc = "try"
    /\ content' = Decode(disk[file_path])
    /\ original_content' = content'
    /\ trace' = [trace EXCEPT ![file_path].reads = @ + 1,
                              ![file_path].text = <<content'>>]
    /\ pc' = "sub"
    /\ UNCHANGED <<env, disk, main_locals, idx, file_path, stdout,
                   exit_status, faults, globs>>

\* Lines 40-42 and 61: the except block prints the error and returns False;
\* main appends nothing and goes on.
Except ==
    /\ faults < MaxFaults
    /\ faults' = faults + 1
    /\ stdout' = [stdout EXCEPT !.errors = @ \cup {file_path}]
    /\ idx' = AfterFalse(idx, Len(java_files))
    /\ pc' = "for"
    /\ file_path' = NoFile
    /\ content' = <<>>
    /\ original_content' = <<>>
    /\ UNCHANGED <<env, main_locals, exit_status, globs>>

\* What a failed write leaves of the bytes it was given: a proper prefix.
\* Two are kept, nothing at all and the first half.
PartialWrites(bytes) == {<<>>, SubSeq(bytes, 1, Len(bytes) \div 2)}

\* Lines 14-15 raise (permission denied, the file vanished, a directory
\* named *.java).
ReadFails ==
    /\ pc = "try"
    /\ Except
    /\ UNCHANGED <<disk, trace>>

\* Lines 20-33 and 38: substitute and compare; an unchanged text returns
\* False.
Substitute ==
    /\ pc = "sub"
    /\ LET new == ApplyRules(content) IN
       IF Changed(new, original_content)
       THEN /\ content' = new
            /\ pc' = "open_w"
            /\ UNCHANGED <<idx, file_path, original_content>>
       ELSE /\ idx' = idx + 1
            /\ pc' = "for"
            /\ file_path' = NoFile
            /\ content' = <<>>
            /\ original_content' = <<>>
    /\ UNCHANGED <<env, disk, main_locals, stdout, exit_status, faults, globs, trace>>

\* Line 34: open(file_path, 'w') truncates the file.
OpenWrite ==
    /\ pc = "open_w"
    /\ disk' = [disk EXCEPT ![file_path] = <<>>]
    /\ trace' = [trace EXCEPT ![file_path].opens = @ + 1]
    /\ pc' = "write"
    /\ UNCHANGED <<env, main_locals, idx, file_locals, stdout, exit_status,
                   faults, globs>>

\* Line 34 raises (a read-only file): nothing is truncated.
OpenWriteFails ==
    /\ pc = "open_w"
    /\ Except
    /\ UNCHANGED <<disk, trace>>

\* Lines 35-36 and 61-63: the text is written, the call returns True and
\* main records the file.
Write ==
    /\ pc = "write"
    /\ disk' = [disk EXCEPT ![file_path] = Encode(content, platform)]
    /\ fixed_files' = Append(fixed_files, file_path)
    /\ idx' = idx + 1
    /\ pc' = "for"
    /\ file_path' = NoFile
    /\ content' = <<>>
    /\ original_content' = <<>>
    /\ UNCHANGED <<env, java_files, total_files, stdout, exit_status, faults,
                   globs, trace>>

\* Line 35 or the close of line 34's with block raises (disk full, I/O
\* error) after the file was truncated.
WriteFails ==
    /\ pc = "write"
    /\ \E left \in PartialWrites(Encode(content, platform)) :
          disk' = [disk EXCEPT ![file_path] = left]
    /\ Except
    /\ UNCHANGED trace

\* Lines 65-74: the summary.
Summary ==
    /\ pc = "summary"
    /\ stdout' = [stdout EXCEPT !.summary =
                    <<[scanned |-> total_files, fixed |-> fixed_files]>>]
    /\ pc' = "return"
    /\ UNCHANGED <<env, disk, main_locals, idx, file_locals, exit_status,
                   faults, globs, trace>>

\* Lines 76-77: main() has returned and the interpreter exits.
Exit ==
    /\ pc = "return"
    /\ exit_status' = <<ExitStatus(RootFound)>>
    /\ pc' = "exited"
    /\ UNCHANGED <<env, disk, main_locals, idx, file_locals, stdout, faults,
                   globs, trace>>

\* Lines 76-77 again: the script is invoked once more on the same tree.
Rerun ==
    /\ pc = "exited"
    /\ run < MaxRuns
    /\ run' = run + 1
    /\ pc' = "main"
    /\ java_files' = <<>>
    /\ idx' = 1
    /\ fixed_files' = <<>>
    /\ total_files' = 0
    /\ stdout' = NoOutput
    /\ exit_status' = <<>>
    /\ orig' = disk
    /\ prev' = [errors |-> stdout.errors, fixed |-> fixed_files]
    /\ globs' = 0
    /\ trace' = [n \in DOMAIN disk |-> NoTrace]
    /\ UNCHANGED <<platform, rootExists, disk, file_locals, faults>>

Next ==
    \/ CheckRoot
    \/ Glob
    \/ ForNext
    \/ ForEnd
    \/ Read
    \/ ReadFails
    \/ Substitute
    \/ OpenWrite
    \/ OpenWriteFails
    \/ Write
    \/ WriteFails
    \/ Summary
    \/ Exit
    \/ Rerun

Spec == Init /\ [][Next]_vars

(* ------------------------- the properties ----------------------------- *)

\* The files main recorded as fixed.
Fixed == Range(fixed_files)

\* The files an "Error processing" line names.
Errors == stdout.errors

\* The files the loop was given.
Listed == Range(java_files)

SummaryPrinted == stdout.summary # <<>>

\* pat occurs somewhere in s.
Occurs(pat, s) == \E i \in 1..Len(s) : MatchAt(pat, s, i)

\* Either rule's pattern occurs in s.
HasPattern(s) == Occurs(Pattern1, s) \/ Occurs(Pattern2, s)

\* The bytes a complete rewrite of the bytes b leaves.
Rewritten(b) == Encode(ApplyRules(Decode(b)), platform)

\* The file was read, and the rules change the text that was read.
ReadAndDiffers(f) ==
    /\ trace[f].text # <<>>
    /\ ApplyRules(trace[f].text[1]) # trace[f].text[1]

\* C1 as stated: when a run has printed its summary, a file the loop was
\* given is in the fixed-files list if and only if the rules change the
\* text read from it, whatever failed.
C1_FixedIffDiffers ==
    SummaryPrinted => \A f \in Listed : f \in Fixed <=> ReadAndDiffers(f)

\* C1 as amended: when a run has printed its summary, a file is in the
\* fixed-files list if and only if the rules change the text read from it
\* and no error was reported for it (opening it for writing and writing
\* it both succeeded).
C1_FixedIffDiffersAndWritten ==
    SummaryPrinted =>
        \A f \in Listed : f \in Fixed <=> (ReadAndDiffers(f) /\ f \notin Errors)

\* A run ended with one file fixed, one read and left alone, and one whose
\* text differed but whose write failed.
C1_Witness ==
    /\ pc = "exited"
    /\ Fixed # {}
    /\ \E f \in Listed : trace[f].text # <<>> /\ ~ReadAndDiffers(f)
    /\ \E f \in Listed \cap Errors : ReadAndDiffers(f)

\* C2: a second run that follows a run without failure, and has none of
\* its own, leaves every file as the first run left it and reports no
\* fixed file.
C2_Idempotent ==
    (/\ run >= 2
     /\ SummaryPrinted
     /\ prev.errors = {}
     /\ Errors = {}) =>
        /\ disk = orig
        /\ fixed_files = <<>>
        /\ stdout.summary[1].fixed = <<>>

\* A failure-free second run ended after a first run that fixed two files.
C2_Witness ==
    /\ run = 2
    /\ pc = "exited"
    /\ prev.errors = {}
    /\ Errors = {}
    /\ Len(prev.fixed) >= 2
    /\ \A f \in Listed : trace[f].reads = 1

\* C3 as stated: a file of the list whose bytes hold no occurrence of
\* either pattern is never opened for writing, keeps its bytes and is not
\* in the fixed-files list.
C3_SelectiveWrite ==
    \A f \in Listed :
        ~HasPattern(orig[f]) =>
            /\ trace[f].opens = 0
            /\ disk[f] = orig[f]
            /\ f \notin Fixed

\* C4 as stated: after a run, a file that was read and written without
\* failure holds its original bytes with every occurrence of the two
\* patterns replaced and nothing else changed.
C4_OnlyTheUrlsChange ==
    pc = "exited" =>
        \A f \in Listed \ Errors : disk[f] = ApplyRules(orig[f])

\* C5, safety: when the summary is printed and exactly one file K had an
\* error, every other listed file whose bytes hold a pattern is rewritten
\* and in the fixed-files list, and K is not in that list.
C5_OthersFixed ==
    \A K \in Listed :
        (SummaryPrinted /\ Errors = {K}) =>
            /\ K \notin Fixed
            /\ \A f \in Listed \ {K} :
                 HasPattern(orig[f]) => f \in Fixed /\ disk[f] = Rewritten(orig[f])

\* How far the run is from its exit: the files the loop still has to
\* take, then the steps left for the file at hand.
Rank ==
    CASE pc = "exited" -> 0
      [] pc = "return" -> 1
      [] pc = "summary" -> 2
      [] pc = "write" -> 6 * (Len(java_files) + 1 - idx) + 1
      [] pc = "open_w" -> 6 * (Len(java_files) + 1 - idx) + 2
      [] pc = "sub" -> 6 * (Len(java_files) + 1 - idx) + 3
      [] pc = "try" -> 6 * (Len(java_files) + 1 - idx) + 4
      [] pc = "for" -> 6 * (Len(java_files) + 1 - idx) + 5
      [] pc = "glob" -> 6 * (Cardinality(Names) + 1) + 6
      [] pc = "main" -> 6 * (Cardinality(Names) + 1) + 7

\* The guards of Next: at each place of the run some action can be taken
\* whether or not a file operation may still fail.
CanStep ==
    \/ pc \in {"main", "glob", "for", "sub", "summary", "return"}
    \/ pc \in {"try", "open_w", "write"} /\ file_path \in DOMAIN disk

\* A run that has not exited can take a step.
C5_NeverStuck == pc # "exited" => CanStep

\* Every step of a run, a failed file's included, brings the run closer to
\* its exit, which lies behind the summary.
C5_Progress == pc # "exited" => Rank' < Rank /\ Rank' >= 0

C6_RootMissing ==
    ~rootExists =>
        /\ globs = 0
        /\ java_files = <<>>
        /\ \A f \in DOMAIN trace : trace[f].reads = 0 /\ trace[f].opens = 0
        /\ disk = orig
        /\ fixed_files = <<>>
        /\ ~SummaryPrinted
        /\ pc \in {"return", "exited"} => stdout.root_error

\* A run ended with the root missing.
C6_Witness == ~rootExists /\ pc = "exited" /\ stdout.root_error

\* C7 as stated: the exit status is non-zero exactly when the root does
\* not exist.
C7_ExitStatus ==
    pc = "exited" => (exit_status[1] # 0 <=> ~rootExists)

\* C8: a file whose name does not end in .java (names compared as the
\* platform compares them) is never passed to fix_http_urls_in_file, never
\* read, never opened for writing, never in the fixed-files list, and keeps
\* its bytes.
C8_OtherExtensions ==
    \A f \in DOMAIN disk :
        ~EndsWith(NormCase(f, platform), DotJava) =>
            /\ f \notin Listed
            /\ trace[f].calls = 0
            /\ trace[f].reads = 0
            /\ trace[f].opens = 0
            /\ f \notin Fixed
            /\ disk[f] = orig[f]

\* A run that fixed a .java file ended with a file of another extension
\* that holds a pattern.
C8_Witness ==
    /\ pc = "exited"
    /\ Fixed # {}
    /\ \E f \in DOMAIN disk :
         ~EndsWith(NormCase(f, platform), DotJava) /\ HasPattern(disk[f])

\* The files of the list the loop has not yet passed to
\* fix_http_urls_in_file.
NotReached ==
    {java_files[k] : k \in {j \in 1..Len(java_files) :
                              j > idx \/ (j = idx /\ pc = "for")}}

\* C9: in every state of a run, the files the loop has not reached hold
\* their original bytes (all of them before the list exists), a file in
\* the fixed-files list holds its rewritten bytes, and no file was passed
\* to fix_http_urls_in_file more than once.
C9_Sequential ==
    /\ pc \in {"main", "glob"} => disk = orig
    /\ \A f \in NotReached : disk[f] = orig[f] /\ trace[f].calls = 0
    /\ \A f \in Fixed : disk[f] = Rewritten(orig[f])
    /\ \A f \in DOMAIN trace : trace[f].calls <= 1

\* The loop stands before its third file, which holds a pattern, after
\* one file failed and one was fixed.
C9_Witness ==
    /\ pc = "for"
    /\ idx = 3
    /\ Len(java_files) = 3
    /\ HasPattern(disk[java_files[3]])
    /\ Errors # {}
    /\ Fixed # {}

\* C10 as stated: after a run every listed file holds either its original
\* bytes or its completely rewritten bytes, and a file whose processing
\* ended in a reported error holds its original bytes.
C10_AtomicRewrite ==
    pc = "exited" =>
        \A f \in Listed :
            /\ disk[f] \in {orig[f], Rewritten(orig[f])}
            /\ f \in Errors => disk[f] = orig[f]

=============================================================================
